---- MODULE Spec2Model ----
(***************************************************************************)
(* Model of two pieces of the django-backend-systems repository.           *)
(*                                                                         *)
(*  1. revision_v2/mysite/users/signals.py: build_profile, the post_save   *)
(*     receiver registered for sender=User, together with the environment  *)
(*     it runs in: request threads that save User rows through the ORM,    *)
(*     either in autocommit mode or inside a transaction.atomic block,     *)
(*     and a database whose writes can fail.                               *)
(*                                                                         *)
(*  2. REST/mysite/movies: the MovieData model (typ defaults to "fiction") *)
(*     and the querysets of MovieViewSet and ActionView.                   *)
(***************************************************************************)
EXTENDS Integers, FiniteSets, Sequences, TLC

\* ------------------------------------------------------------------ bounds

\* Largest User primary key the model hands out.
MaxUsers == 2

\* Number of operations (saves or direct signal sends) started in one run.
MaxOps == 3

\* Largest MovieData primary key the model hands out.
MaxMovies == 3

\* Request threads that may run concurrently.
Requests == {"r1", "r2"}

\* Values of the one User attribute the model keeps (the concrete scenario
\* of the specification renames alice to alice2).
Names == {"alice", "alice2"}

\* The name a new user is registered under.
NewNames == {"alice"}

\* ------------------------------------------------------------ table helpers

\* A table is a function from primary keys to row values.
EmptyTable == [k \in {} |-> 0]

Put(t, k, v) == [x \in (DOMAIN t) \cup {k} |-> IF x = k THEN v ELSE t[x]]

Merge(base, over) ==
    [x \in (DOMAIN base) \cup (DOMAIN over) |->
        IF x \in DOMAIN over THEN over[x] ELSE base[x]]

\* ------------------------------------------------------------------- state

VARIABLES
    db,        \* the database: committed tables, sequences, open transactions
    pc,        \* position of each request thread
    op,        \* the operation each request thread is carrying out
    outcome,   \* what the caller of the operation got back
    hook,      \* record of the build_profile invocation of each request
    ops,       \* operations started so far
    overlap,   \* requests that were in flight together with another one
    movies,    \* MovieData table: pk -> typ
    movieSeq,  \* next MovieData pk
    lastMovie  \* the most recent request served by the movie API

vars == <<db, pc, op, outcome, hook, ops, overlap, movies, movieSeq, lastMovie>>
userVars == <<db, pc, op, outcome, hook, ops, overlap>>
movieVars == <<movies, movieSeq, lastMovie>>

\* ------------------------------------------------------- database (views)

NoTxn == [active |-> FALSE, User |-> EmptyTable, Profile |-> EmptyTable]

\* What request r reads: the committed rows overlaid with the rows its own
\* open transaction has written.
UserView(d, r) == Merge(d.User, d.txn[r].User)
ProfileView(d, r) == Merge(d.Profile, d.txn[r].Profile)

\* Primary keys of the Profile rows of table t whose user is u.
ProfilesOf(t, u) == {p \in DOMAIN t : t[p] = u}

\* Every Profile row held anywhere: committed or pending in a transaction.
ProfileRows(d) ==
    {<<p, d.Profile[p]>> : p \in DOMAIN d.Profile}
      \cup UNION {{<<p, d.txn[r].Profile[p]>> : p \in DOMAIN d.txn[r].Profile} :
                    r \in Requests}

\* Every User row held anywhere: committed or pending in a transaction.
UserRows(d) ==
    {<<u, d.User[u]>> : u \in DOMAIN d.User}
      \cup UNION {{<<u, d.txn[r].User[u]>> : u \in DOMAIN d.txn[r].User} :
                    r \in Requests}

\* A write of request r goes to its open transaction, or straight to the
\* committed table when r runs in autocommit mode.
WriteUser(d, r, uid, name) ==
    IF d.txn[r].active
    THEN [d EXCEPT !.txn[r].User = Put(@, uid, name)]
    ELSE [d EXCEPT !.User = Put(@, uid, name)]

WriteProfile(d, r, pid, uid) ==
    IF d.txn[r].active
    THEN [d EXCEPT !.txn[r].Profile = Put(@, pid, uid)]
    ELSE [d EXCEPT !.Profile = Put(@, pid, uid)]

\* Profile.user is a one-to-one association: a second row for the same user
\* is rejected by the store.
OneToOneViolated(d, r, uid) == ProfilesOf(ProfileView(d, r), uid) # {}

\* A row some other open transaction has written and not yet committed:
\* the database makes a conflicting write wait for that transaction.
ProfilePendingElsewhere(d, r, uid) ==
    \E r2 \in Requests \ {r} : ProfilesOf(d.txn[r2].Profile, uid) # {}

UserPendingElsewhere(d, r, uid) ==
    \E r2 \in Requests \ {r} : uid \in DOMAIN d.txn[r2].User

\* Profile.objects.create(user=instance): one INSERT into the Profile table
\* on the caller's connection.  It is rejected on a storage fault or when
\* it would break the one-to-one association, and then changes nothing.
ProfileObjectsCreate(d, r, uid, fault) ==
    IF fault \/ OneToOneViolated(d, r, uid)
    THEN [db |-> d, rejected |-> TRUE, writes |-> 1]
    ELSE [db |-> [WriteProfile(d, r, d.profileSeq, uid)
                    EXCEPT !.profileSeq = @ + 1],
          rejected |-> FALSE, writes |-> 1]

\* ------------------------------------------------- variants of the receiver
\* Each variant is build_profile with one plausible slip; the checks of the
\* properties below are repeated with a variant in place of the receiver to
\* show that they depend on the receiver's code.

\* "if not created:" in place of "if created:".
build_profile_negated(d, r, instance, created, fault) ==
    IF ~created
    THEN LET res == ProfileObjectsCreate(d, r, instance, fault)
         IN  [db |-> res.db, rejected |-> res.rejected,
              raised |-> res.rejected, writes |-> res.writes]
    ELSE [db |-> d, rejected |-> FALSE, raised |-> FALSE, writes |-> 0]

\* The "if created:" test left out: a Profile is created on every save.
build_profile_every_save(d, r, instance, created, fault) ==
    LET res == ProfileObjectsCreate(d, r, instance, fault)
    IN  [db |-> res.db, rejected |-> res.rejected,
         raised |-> res.rejected, writes |-> res.writes]

\* The create wrapped in "try: ... except Exception: pass".
build_profile_swallows(d, r, instance, created, fault) ==
    IF created
    THEN LET res == ProfileObjectsCreate(d, r, instance, fault)
         IN  [db |-> res.db, rejected |-> res.rejected,
              raised |-> FALSE, writes |-> res.writes]
    ELSE [db |-> d, rejected |-> FALSE, raised |-> FALSE, writes |-> 0]

\* The receiver also changes the instance and saves it again.
build_profile_saves_user(d, r, instance, created, fault) ==
    IF created
    THEN LET res == ProfileObjectsCreate(d, r, instance, fault)
         IN  [db |-> WriteUser(res.db, r, instance, "alice2"),
              rejected |-> res.rejected,
              raised |-> res.rejected, writes |-> res.writes]
    ELSE [db |-> d, rejected |-> FALSE, raised |-> FALSE, writes |-> 0]

\* The Profile is written on a connection of its own, outside the
\* transaction of the thread that saves the User.
build_profile_own_connection(d, r, instance, created, fault) ==
    IF created
    THEN IF fault \/ ProfilesOf(d.Profile, instance) # {}
         THEN [db |-> d, rejected |-> TRUE, raised |-> TRUE, writes |-> 1]
         ELSE [db |-> [d EXCEPT !.Profile = Put(@, d.profileSeq, instance),
                                !.profileSeq = @ + 1],
               rejected |-> FALSE, raised |-> FALSE, writes |-> 1]
    ELSE [db |-> d, rejected |-> FALSE, raised |-> FALSE, writes |-> 0]

\* ------------------------------------------------------------ the receiver

\* build_profile(sender, instance, created, **kwargs) running on the thread
\* of request r.  The result holds the database afterwards, whether the
\* store rejected the write, whether an exception left the receiver, and the
\* number of Profile.objects.create calls issued.
build_profile(d, r, instance, created, fault) ==
    IF created
    THEN LET res == ProfileObjectsCreate(d, r, instance, fault)
         IN  [db |-> res.db, rejected |-> res.rejected,
              raised |-> res.rejected, writes |-> res.writes]
    ELSE [db |-> d, rejected |-> FALSE, raised |-> FALSE, writes |-> 0]

\* ------------------------------------------------------------ request steps

NoOp == [kind |-> "none", atomic |-> FALSE, instance |-> 0,
         name |-> "alice", created |-> FALSE]

NoHook == [ran |-> FALSE, instance |-> 0, created |-> FALSE,
           fault |-> FALSE, rejected |-> FALSE, raised |-> FALSE, writes |-> 0, grew |-> 0,
           profilesChanged |-> FALSE, usersChanged |-> FALSE]

InFlight(r) == pc[r] \in {"save", "signal", "return"}

\* A request starts User.objects.create(...) / user.save() for a new user.
BeginCreate(r) ==
    /\ pc[r] = "idle"
    /\ ops < MaxOps
    /\ db.userSeq <= MaxUsers
    /\ \E atomic \in BOOLEAN, name \in NewNames :
         /\ op' = [op EXCEPT ![r] = [kind |-> "create", atomic |-> atomic,
                                     instance |-> 0, name |-> name,
                                     created |-> FALSE]]
         /\ db' = [db EXCEPT !.txn[r] = [NoTxn EXCEPT !.active = atomic]]
    /\ pc' = [pc EXCEPT ![r] = "save"]
    /\ ops' = ops + 1
    /\ overlap' = IF \E r2 \in Requests \ {r} : InFlight(r2)
                  THEN overlap \cup {r} \cup {r2 \in Requests : InFlight(r2)}
                  ELSE overlap
    /\ UNCHANGED <<outcome, hook, movieVars>>

\* A request starts user.save() for a user it has loaded from the store.
BeginUpdate(r) ==
    /\ pc[r] = "idle"
    /\ ops < MaxOps
    /\ \E atomic \in BOOLEAN, name \in Names, u \in DOMAIN db.User :
         /\ op' = [op EXCEPT ![r] = [kind |-> "update", atomic |-> atomic,
                                     instance |-> u, name |-> name,
                                     created |-> FALSE]]
         /\ db' = [db EXCEPT !.txn[r] = [NoTxn EXCEPT !.active = atomic]]
    /\ pc' = [pc EXCEPT ![r] = "save"]
    /\ ops' = ops + 1
    /\ overlap' = IF \E r2 \in Requests \ {r} : InFlight(r2)
                  THEN overlap \cup {r} \cup {r2 \in Requests : InFlight(r2)}
                  ELSE overlap
    /\ UNCHANGED <<outcome, hook, movieVars>>

\* A request invokes the receiver directly for a stored user, with a created
\* flag of its choosing (post_save.send, or a plain call of build_profile).
BeginSend(r) ==
    /\ pc[r] = "idle"
    /\ ops < MaxOps
    /\ \E atomic \in BOOLEAN, created \in BOOLEAN, u \in DOMAIN db.User :
         /\ op' = [op EXCEPT ![r] = [kind |-> "send", atomic |-> atomic,
                                     instance |-> u, name |-> db.User[u],
                                     created |-> created]]
         /\ db' = [db EXCEPT !.txn[r] = [NoTxn EXCEPT !.active = atomic]]
    /\ pc' = [pc EXCEPT ![r] = "signal"]
    /\ ops' = ops + 1
    /\ overlap' = IF \E r2 \in Requests \ {r} : InFlight(r2)
                  THEN overlap \cup {r} \cup {r2 \in Requests : InFlight(r2)}
                  ELSE overlap
    /\ UNCHANGED <<outcome, hook, movieVars>>

\* Model.save writes the User row: an INSERT with a fresh primary key for a
\* new user (created = True), an UPDATE of the existing row otherwise
\* (created = False).
SaveRow(r) ==
    /\ pc[r] = "save"
    /\ IF op[r].kind = "create"
       THEN /\ db' = [WriteUser(db, r, db.userSeq, op[r].name)
                        EXCEPT !.userSeq = @ + 1]
            /\ op' = [op EXCEPT ![r].instance = db.userSeq,
                                ![r].created = TRUE]
       ELSE /\ ~UserPendingElsewhere(db, r, op[r].instance)
            /\ db' = WriteUser(db, r, op[r].instance, op[r].name)
            /\ op' = [op EXCEPT ![r].created = FALSE]
    /\ pc' = [pc EXCEPT ![r] = "signal"]
    /\ UNCHANGED <<outcome, hook, ops, overlap, movieVars>>

\* The write of the User row fails: save raises and post_save is not sent.
SaveRowFails(r) ==
    /\ pc[r] = "save"
    /\ outcome' = [outcome EXCEPT ![r] = "error"]
    /\ pc' = [pc EXCEPT ![r] = "return"]
    /\ UNCHANGED <<db, op, hook, ops, overlap, movieVars>>

\* post_save is sent synchronously on the saving thread and build_profile
\* runs to completion; an exception it raises leaves save().
PostSave(r) ==
    /\ pc[r] = "signal"
    /\ \E fault \in BOOLEAN :
         LET res == build_profile(db, r, op[r].instance, op[r].created, fault)
             before == ProfilesOf(ProfileView(db, r), op[r].instance)
             after == ProfilesOf(ProfileView(res.db, r), op[r].instance)
         IN  /\ (op[r].created /\ ~fault)
                    => ~ProfilePendingElsewhere(db, r, op[r].instance)
             /\ db' = res.db
             /\ hook' = [hook EXCEPT ![r] =
                    [ran |-> TRUE, instance |-> op[r].instance,
                     created |-> op[r].created, fault |-> fault,
                     rejected |-> res.rejected, raised |-> res.raised,
                     writes |-> res.writes,
                     grew |-> Cardinality(after) - Cardinality(before),
                     profilesChanged |-> ProfileRows(res.db) # ProfileRows(db),
                     usersChanged |-> \/ UserRows(res.db) # UserRows(db)
                                      \/ res.db.userSeq # db.userSeq]]
             /\ outcome' = [outcome EXCEPT ![r] =
                    IF res.raised THEN "error" ELSE "ok"]
    /\ pc' = [pc EXCEPT ![r] = "return"]
    /\ UNCHANGED <<op, ops, overlap, movieVars>>

\* The operation returns to its caller in autocommit mode: every write is
\* already committed, whatever the outcome.
ReturnAutocommit(r) ==
    /\ pc[r] = "return"
    /\ ~db.txn[r].active
    /\ pc' = [pc EXCEPT ![r] = "done"]
    /\ UNCHANGED <<db, op, outcome, hook, ops, overlap, movieVars>>

\* The atomic block around the operation exits normally: commit.
Commit(r) ==
    /\ pc[r] = "return"
    /\ db.txn[r].active
    /\ outcome[r] = "ok"
    /\ db' = [db EXCEPT !.User = Merge(@, db.txn[r].User),
                        !.Profile = Merge(@, db.txn[r].Profile),
                        !.txn[r] = NoTxn]
    /\ pc' = [pc EXCEPT ![r] = "done"]
    /\ UNCHANGED <<op, outcome, hook, ops, overlap, movieVars>>

\* The atomic block around the operation exits with an exception, raised by
\* the save, by the receiver, or by later code of the block: roll back.
Rollback(r) ==
    /\ pc[r] = "return"
    /\ db.txn[r].active
    /\ db' = [db EXCEPT !.txn[r] = NoTxn]
    /\ outcome' = [outcome EXCEPT ![r] =
                     IF @ = "ok" THEN "rolledback" ELSE @]
    /\ pc' = [pc EXCEPT ![r] = "done"]
    /\ UNCHANGED <<op, hook, ops, overlap, movieVars>>

\* The request thread is free for the next operation.
Reset(r) ==
    /\ pc[r] = "done"
    /\ pc' = [pc EXCEPT ![r] = "idle"]
    /\ op' = [op EXCEPT ![r] = NoOp]
    /\ hook' = [hook EXCEPT ![r] = NoHook]
    /\ outcome' = [outcome EXCEPT ![r] = "none"]
    /\ overlap' = overlap \ {r}
    /\ UNCHANGED <<db, ops, movieVars>>

\* ------------------------------------------------------------------ movies

Typs == {"fiction", "action", "drama"}

\* MovieData.typ: CharField(default="fiction").
DefaultTyp == "fiction"

\* ActionView filtering on the type its name suggests.
ActionView_action(t) == {m \in DOMAIN t : t[m] = "action"}

\* MovieViewSet.queryset = MovieData.objects.all()
MovieViewSet(t) == DOMAIN t

\* ActionView.queryset = MovieData.objects.filter(typ="fiction")
ActionView(t) == {m \in DOMAIN t : t[m] = "fiction"}

\* A MovieData row is created; typ is given, or left out ("default").
CreateMovie ==
    /\ movieSeq <= MaxMovies
    /\ \E given \in Typs \cup {"default"} :
         /\ movies' = Put(movies, movieSeq,
                          IF given = "default" THEN DefaultTyp ELSE given)
         /\ lastMovie' = [kind |-> "create", pk |-> movieSeq,
                          explicit |-> given # "default"]
    /\ movieSeq' = movieSeq + 1
    /\ UNCHANGED userVars

\* The typ of a MovieData row is changed.
UpdateMovie ==
    /\ \E m \in DOMAIN movies, t \in Typs :
         /\ movies' = Put(movies, m, t)
         /\ lastMovie' = [kind |-> "update", pk |-> m, explicit |-> TRUE]
    /\ UNCHANGED <<movieSeq, userVars>>

\* A MovieData row is deleted.
DestroyMovie ==
    /\ \E m \in DOMAIN movies :
         /\ movies' = [x \in (DOMAIN movies) \ {m} |-> movies[x]]
         /\ lastMovie' = [kind |-> "destroy", pk |-> m, explicit |-> TRUE]
    /\ UNCHANGED <<movieSeq, userVars>>

\* ---------------------------------------------------------- specifications

Init ==
    /\ db = [User |-> EmptyTable, Profile |-> EmptyTable,
             userSeq |-> 1, profileSeq |-> 1,
             txn |-> [r \in Requests |-> NoTxn]]
    /\ pc = [r \in Requests |-> "idle"]
    /\ op = [r \in Requests |-> NoOp]
    /\ outcome = [r \in Requests |-> "none"]
    /\ hook = [r \in Requests |-> NoHook]
    /\ ops = 0
    /\ overlap = {}
    /\ movies = EmptyTable
    /\ movieSeq = 1
    /\ lastMovie = [kind |-> "none", pk |-> 0, explicit |-> FALSE]

Next ==
    \E r \in Requests :
        \/ BeginCreate(r)
        \/ BeginUpdate(r)
        \/ BeginSend(r)
        \/ SaveRow(r)
        \/ SaveRowFails(r)
        \/ PostSave(r)
        \/ ReturnAutocommit(r)
        \/ Commit(r)
        \/ Rollback(r)
        \/ Reset(r)

Spec == Init /\ [][Next]_vars

MovieNext == CreateMovie \/ UpdateMovie \/ DestroyMovie

MovieSpec == Init /\ [][MovieNext]_vars

\* -------------------------------------------------------------- properties

\* The build_profile invocation of request r has finished.
HookDone(r) == pc[r] \in {"return", "done"} /\ hook[r].ran

\* The step being taken is the build_profile invocation of request r.
HookStep(r) == pc[r] = "signal" /\ pc'[r] = "return"

\* No operation is in flight.
Quiescent == \A r \in Requests : ~InFlight(r)

CountFor(u) == Cardinality(ProfilesOf(db.Profile, u))

\* C1: whenever no operation is in flight, every User in the store has
\* exactly one Profile whose user is that User.
C1_ExactlyOneProfile ==
    Quiescent => \A u \in DOMAIN db.User : CountFor(u) = 1

\* Lemma: no User ever has two or more Profiles, in the committed store or
\* in the view of any request.
AtMostOneProfile ==
    \A r \in Requests : \A u \in DOMAIN UserView(db, r) :
        Cardinality(ProfilesOf(ProfileView(db, r), u)) <= 1

\* C2 as stated: an invocation of build_profile adds one Profile for the
\* user if and only if created is true, and does nothing when it is false.
C2_CreatesIffCreated ==
    \A r \in Requests : HookDone(r) =>
        /\ hook[r].grew = 1 <=> hook[r].created
        /\ ~hook[r].created =>
             /\ ~hook[r].profilesChanged /\ ~hook[r].usersChanged
             /\ ~hook[r].raised /\ hook[r].writes = 0

\* C2 as amended: an invocation of build_profile adds one Profile for the
\* user if and only if created is true and the store accepts the insert;
\* when the store rejects it the exception leaves the receiver and no row
\* changes; when created is false the invocation does nothing at all.
C2_CreatesIffCreatedAndAccepted ==
    \A r \in Requests : HookDone(r) =>
        /\ hook[r].grew = 1 <=> (hook[r].created /\ ~hook[r].rejected)
        /\ hook[r].grew \in {0, 1}
        /\ (hook[r].created /\ hook[r].rejected) =>
             hook[r].raised /\ ~hook[r].profilesChanged
        /\ ~hook[r].created =>
             /\ ~hook[r].profilesChanged /\ ~hook[r].usersChanged
             /\ ~hook[r].raised /\ hook[r].writes = 0

C2_Witness ==
    \E r1, r2 \in Requests :
        /\ HookDone(r1) /\ hook[r1].created /\ ~hook[r1].rejected
        /\ hook[r1].grew = 1
        /\ HookDone(r2) /\ ~hook[r2].created /\ hook[r2].grew = 0

\* C3: every step of an update of an existing User, the build_profile
\* invocation included, leaves every Profile row as it was.
C3_UpdateLeavesProfiles ==
    [][\A r \in Requests :
         (pc'[r] # pc[r] /\ (op[r].kind = "update" \/ op'[r].kind = "update"))
           => ProfileRows(db') = ProfileRows(db)]_vars

C3_Witness ==
    \E r1, r2 \in Requests :
        /\ r1 # r2
        /\ pc[r1] = "done" /\ op[r1].kind = "update" /\ hook[r1].ran
        /\ pc[r2] = "done" /\ op[r2].kind = "update" /\ hook[r2].ran
        /\ op[r1].instance = op[r2].instance
        /\ CountFor(op[r1].instance) = 1

\* C4: after a user creation whose Profile write was rejected, the caller
\* has received an error, the user has no Profile, and the user is not in
\* the store.
C4_CreateFailsAtomically ==
    \A r \in Requests :
        (pc[r] = "done" /\ op[r].kind = "create" /\ hook[r].ran
           /\ hook[r].rejected)
        => /\ outcome[r] = "error"
           /\ CountFor(op[r].instance) = 0
           /\ op[r].instance \notin DOMAIN db.User

\* C5: a Profile write rejected inside build_profile (storage fault or
\* duplicate association) reaches the caller as an error, is attempted
\* once, and leaves the Profile rows unchanged.
C5_FailureSurfaced ==
    \A r \in Requests : (HookDone(r) /\ hook[r].rejected) =>
        /\ hook[r].raised
        /\ outcome[r] = "error"
        /\ hook[r].writes = 1
        /\ ~hook[r].profilesChanged
        /\ hook[r].grew = 0

C5_Witness ==
    \E r1, r2 \in Requests :
        /\ pc[r1] = "done" /\ hook[r1].ran /\ hook[r1].rejected
        /\ hook[r1].fault
        /\ pc[r2] = "done" /\ hook[r2].ran /\ hook[r2].rejected
        /\ ~hook[r2].fault

\* C6: no invocation of build_profile changes a User row, and an
\* invocation with created true issues exactly one Profile write.
C6_NoUserWrite ==
    \A r \in Requests : HookDone(r) =>
        /\ ~hook[r].usersChanged
        /\ hook[r].created => hook[r].writes = 1

C6_Witness ==
    \E r1, r2 \in Requests :
        /\ HookDone(r1) /\ hook[r1].created /\ ~hook[r1].rejected
        /\ HookDone(r2) /\ hook[r2].created /\ hook[r2].rejected

\* C7: every committed Profile row references a committed User row, also
\* after the transaction around a user creation has rolled back.
C7_NoOrphanProfile ==
    \A p \in DOMAIN db.Profile : db.Profile[p] \in DOMAIN db.User

C7_Witness ==
    \E r \in Requests :
        /\ pc[r] = "done" /\ op[r].kind = "create"
        /\ outcome[r] = "rolledback"
        /\ hook[r].ran /\ hook[r].created /\ hook[r].grew = 1
        /\ op[r].instance \notin DOMAIN db.User
        /\ CountFor(op[r].instance) = 0

\* C8: two users created by requests that were in flight together, and that
\* are in the store once both requests are done, have exactly one Profile
\* each, in two different rows.
C8_ConcurrentCreates ==
    \A r1, r2 \in Requests :
        (/\ r1 # r2
         /\ {r1, r2} \subseteq overlap
         /\ pc[r1] = "done" /\ op[r1].kind = "create"
         /\ pc[r2] = "done" /\ op[r2].kind = "create"
         /\ {op[r1].instance, op[r2].instance} \subseteq DOMAIN db.User)
        => /\ op[r1].instance # op[r2].instance
           /\ CountFor(op[r1].instance) = 1
           /\ CountFor(op[r2].instance) = 1
           /\ ProfilesOf(db.Profile, op[r1].instance)
                \cap ProfilesOf(db.Profile, op[r2].instance) = {}

\* Lemma: the Profile rows of two different users are different rows, and
\* two requests never hold a pending Profile row with the same key.
NoSharedProfileRow ==
    \A r1, r2 \in Requests : r1 # r2 =>
        (DOMAIN db.txn[r1].Profile) \cap (DOMAIN db.txn[r2].Profile) = {}

\* C9: in every view of the store a Profile row references a User row of
\* that view, and a Profile row appears only in a build_profile step whose
\* created flag is true, for the user of that step, who was in the view
\* before the step.
C9_ProfileAfterUser ==
    [][/\ \A r \in Requests : \A p \in DOMAIN ProfileView(db', r) :
            ProfileView(db', r)[p] \in DOMAIN UserView(db', r)
       /\ ProfileRows(db') \subseteq ProfileRows(db)
            \/ \E r \in Requests :
                 /\ HookStep(r)
                 /\ op[r].created
                 /\ op[r].instance \in DOMAIN UserView(db, r)
                 /\ \A row \in ProfileRows(db') \ ProfileRows(db) :
                      row[2] = op[r].instance]_vars

C9_Witness ==
    \E r \in Requests :
        /\ pc[r] = "return" /\ hook[r].ran /\ hook[r].created
        /\ hook[r].grew = 1
        /\ op[r].kind = "create"
        /\ op[r].instance \in DOMAIN db.txn[r].User
        /\ op[r].instance \notin DOMAIN db.User

\* C10: ActionView serves exactly the rows whose typ is "fiction", and no
\* row of typ "action"; a movie just created without a typ is served by
\* ActionView and by MovieViewSet, which serves every row.
C10_ActionViewServesFiction ==
    /\ \A m \in DOMAIN movies :
         /\ m \in ActionView(movies) <=> movies[m] = "fiction"
         /\ movies[m] = "action" => m \notin ActionView(movies)
         /\ m \in MovieViewSet(movies)
    /\ ActionView(movies) \subseteq DOMAIN movies
    /\ MovieViewSet(movies) \subseteq DOMAIN movies
    /\ (lastMovie.kind = "create" /\ ~lastMovie.explicit) =>
         /\ lastMovie.pk \in ActionView(movies)
         /\ lastMovie.pk \in MovieViewSet(movies)

C10_Witness ==
    /\ lastMovie.kind = "create" /\ ~lastMovie.explicit
    /\ lastMovie.pk \in ActionView(movies)
    /\ \E m \in DOMAIN movies :
         movies[m] = "action" /\ m \notin ActionView(movies)

====
